---- MODULE Spec2Model ----
(***************************************************************************)
(* wik: a terminal browser for Wikipedia.  The model covers the App state  *)
(* machine (src/src/app.rs), the event loop (src/src/main.rs), the render  *)
(* layer's slot accesses (src/src/ui.rs) and the background loaders that   *)
(* write into the Shared<T> = Arc<Mutex<T>> slots.                         *)
(*                                                                         *)
(* Strings are sequences of one-character strings; Option<T> is a sequence *)
(* of length 0 (None) or 1 (Some).  Vec / VecDeque indices are 0-based as  *)
(* in the source; Get(s, i) reads index i.                                 *)
(***************************************************************************)
EXTENDS Integers, Sequences, FiniteSets, TLC

(* ------------------------------ bounds -------------------------------- *)

\* longest text, in bytes, typed into a text box
MaxInputLen == 1
\* longest text, in bytes, typed into a text box where only text is edited
MaxTextLen == 3
\* background search units of work that may exist at once
MaxSearchThreads == 2
\* background document units of work that may exist at once
MaxArticleThreads == 2
\* longest back_history the model follows
MaxHistory == 3
\* largest vertical_scroll the model follows
MaxScroll == 1

(* --------------------------- the environment -------------------------- *)

\* characters the keyboard can type: two of one byte and U+00E9, which
\* UTF-8 encodes in the two bytes C3 A9
Chars == {"a", "b", "U+00E9"}

\* char::encode_utf8: the bytes of a character in a String
Utf8(c) == IF c = "U+00E9" THEN <<"C3", "A9">> ELSE <<c>>

\* str::is_char_boundary(idx): the start, the end, or a byte that is not a
\* continuation byte
is_char_boundary(s, idx) ==
    \/ idx = 0
    \/ idx = Len(s)
    \/ idx > 0 /\ idx < Len(s) /\ s[idx + 1] # "A9"

None == <<>>
Some(x) == <<x>>

PageA == <<"A">>
PageB == <<"B", " ", "C">>
\* a title the content service reports as not existing
PageMissing == <<"Z">>

\* link targets as they appear in the spans of a document
LinkToA == <<".", "/", "A">>
LinkToB == <<".", "/", "B", "_", "C">>

Queries == {<<"a">>, <<"b">>}

\* ContentService.search: the result titles of a query
ServiceSearch(query) ==
    IF query = <<"a">> THEN <<PageA, PageB>>
    ELSE IF query = <<"b">> THEN <<PageB>>
    ELSE <<>>

Span(link, index) == [link |-> link, index |-> index]

\* ContentService.fetchDocument: spans, link indices, validity
ServiceDocument(title) ==
    IF title = PageA
    THEN [spans |-> <<Span(None, 0), Span(Some(LinkToB), 1)>>,
          links |-> <<1>>, valid |-> TRUE]
    ELSE IF title = PageB
    THEN [spans |-> <<Span(Some(LinkToA), 0), Span(None, 1), Span(Some(LinkToB), 2)>>,
          links |-> <<0, 2>>, valid |-> TRUE]
    ELSE [spans |-> <<>>, links |-> <<>>, valid |-> FALSE]

\* the command line: --search and --page
ArgsSearch == {None, Some(<<"a">>)}
ArgsPage == {None, Some(PageA), Some(PageMissing)}

\* the themes read at construction
ThemeNames == <<"Normal", "Light">>

(* ------------------------------ helpers ------------------------------- *)

Get(s, i) == s[i + 1]
InRange(s, i) == i >= 0 /\ i < Len(s)
Max(a, b) == IF a > b THEN a ELSE b
Min(a, b) == IF a < b THEN a ELSE b
Clamp(x, lo, hi) == Max(lo, Min(x, hi))

remainder(dividend, divisor) ==
    (((dividend + divisor) % divisor) + divisor) % divisor

\* String::insert(idx, c) and String::remove(idx), idx 0-based, where idx
\* is a character boundary (and, for remove, not the end): insert puts the
\* bytes of c at idx, remove takes out the whole character that starts at
\* idx. Anywhere else both panic (see insert_to_input_at_cursor)
StringInsert(s, idx, c) == SubSeq(s, 1, idx) \o Utf8(c) \o SubSeq(s, idx + 1, Len(s))
StringRemove(s, idx) ==
    SubSeq(s, 1, idx)
        \o SubSeq(s, idx + (IF s[idx + 1] = "C3" THEN 2 ELSE 1) + 1, Len(s))

\* str::replace("_", " ")
ReplaceUnderscore(s) == [i \in 1..Len(s) |-> IF s[i] = "_" THEN " " ELSE s[i]]

\* str::replace("./", "")
RECURSIVE RemoveDotSlash(_)
RemoveDotSlash(s) ==
    IF Len(s) = 0 THEN <<>>
    ELSE IF Len(s) >= 2 /\ s[1] = "." /\ s[2] = "/"
    THEN RemoveDotSlash(SubSeq(s, 3, Len(s)))
    ELSE <<s[1]>> \o RemoveDotSlash(SubSeq(s, 2, Len(s)))

FormatTitle(title) == RemoveDotSlash(ReplaceUnderscore(title))

(* ------------- themes (styles.rs 88-114, app.rs 505-533) -------------- *)

\* str::split(sep): the pieces of s between the separators, empty pieces
\* included; a text is the sequence of its characters
RECURSIVE Split(_, _)
Split(s, sep) ==
    IF \A i \in 1..Len(s) : s[i] # sep
    THEN <<s>>
    ELSE LET first == CHOOSE i \in 1..Len(s) :
                          s[i] = sep /\ \A j \in 1..(i - 1) : s[j] # sep
         IN  <<SubSeq(s, 1, first - 1)>> \o Split(SubSeq(s, first + 1, Len(s)), sep)

\* hex_to_rgb (misc.rs 34-47): leading # are trimmed, the rest must be six
\* characters, and each pair a u8 in base 16 (from_str_radix takes a + sign)
hex_to_rgb(hex) ==
    LET Digits == <<"0", "1", "2", "3", "4", "5", "6", "7", "8", "9",
                    "a", "b", "c", "d", "e", "f">>
        Upper == <<"0", "1", "2", "3", "4", "5", "6", "7", "8", "9",
                   "A", "B", "C", "D", "E", "F">>
        IsDigit(c) == \E i \in 1..16 : Digits[i] = c \/ Upper[i] = c
        Value(c) == (CHOOSE i \in 1..16 : Digits[i] = c \/ Upper[i] = c) - 1
        hashes == CHOOSE n \in 0..Len(hex) :
                      /\ \A i \in 1..n : hex[i] = "#"
                      /\ n < Len(hex) => hex[n + 1] # "#"
        trimmed == SubSeq(hex, hashes + 1, Len(hex))
        IsU8(pair) ==
            \/ IsDigit(pair[1]) /\ IsDigit(pair[2])
            \/ pair[1] = "+" /\ IsDigit(pair[2])
        U8(pair) ==
            IF pair[1] = "+" THEN Value(pair[2])
            ELSE 16 * Value(pair[1]) + Value(pair[2])
    IN  IF Len(trimmed) # 6 THEN None
        ELSE IF \E k \in 0..2 : ~IsU8(SubSeq(trimmed, 2 * k + 1, 2 * k + 2)) THEN None
        ELSE Some([kind |-> "Rgb",
                   r |-> U8(SubSeq(trimmed, 1, 2)),
                   g |-> U8(SubSeq(trimmed, 3, 4)),
                   b |-> U8(SubSeq(trimmed, 5, 6))])

\* Theme::default (styles.rs 17-30): named colours but for the background
Theme_default ==
    LET Named(kind) == [kind |-> kind, r |-> 0, g |-> 0, b |-> 0]
    IN  [name |-> <<"D", "e", "f", "a", "u", "l", "t">>,
         background |-> [kind |-> "Rgb", r |-> 42, g |-> 49, b |-> 56],
         text |-> Named("White"),
         secondary |-> Named("Yellow"),
         tertiary |-> Named("Green"),
         highlight |-> Named("LightBlue"),
         negative_text |-> Named("LightYellow")]

\* Theme::from_hex_string_series: the colours that parse, in their order;
\* with six or more of them the theme of that name, else Theme::default()
from_hex_string_series(name, hex_string_series) ==
    LET maybe_colors == [i \in 1..Len(Split(hex_string_series, "-")) |->
                            hex_to_rgb(Split(hex_string_series, "-")[i])]
        theme_colors == [i \in 1..Len(SelectSeq(maybe_colors, LAMBDA m : m # None)) |->
                            SelectSeq(maybe_colors, LAMBDA m : m # None)[i][1]]
    IN  IF Len(theme_colors) >= 6
        THEN [name |-> name,
              background |-> theme_colors[1],
              text |-> theme_colors[2],
              secondary |-> theme_colors[3],
              tertiary |-> theme_colors[4],
              highlight |-> theme_colors[5],
              negative_text |-> theme_colors[6]]
        ELSE Theme_default

\* App::default, app.rs 505-533: theme_menu.themes from ./themes.txt, which
\* is None when the file cannot be opened and else the sequence of its
\* lines.  The loop over the lines ends at the first line without a second
\* token (break); when no theme was pushed the theme Normal is
theme_menu_themes(themes_txt) ==
    LET lines == IF themes_txt = None THEN <<>> ELSE themes_txt[1]
        from_line[k \in 1..(Len(lines) + 1)] ==
            IF k = Len(lines) + 1 THEN <<>>
            ELSE LET line_split == Split(lines[k], " ")
                 IN  IF Len(line_split) < 2
                     THEN <<>>
                     ELSE <<from_hex_string_series(line_split[1], line_split[2])>>
                              \o from_line[k + 1]
    IN  IF Len(from_line[1]) = 0
        THEN <<from_hex_string_series(
                   <<"N", "o", "r", "m", "a", "l">>,
                   <<"2", "a", "3", "1", "3", "8", "-", "f", "f", "f", "f", "f", "f", "-",
                     "c", "1", "9", "c", "0", "0", "-", "1", "3", "a", "1", "0", "e", "-",
                     "3", "b", "7", "8", "f", "f", "-", "0", "0", "0", "0", "0", "0">>)>>
        ELSE from_line[1]

\* the ./themes.txt the program may find: none, an empty one, and files of
\* the lines "Dark 000000-ffffff-111111-222222-333333-444444",
\* "Light ffffff-000000-444444-333333-222222-111111", "Broken onlytoken"
\* and "notheme", a line of one token
ThemeFiles ==
    LET c(x) == <<x, x, x, x, x, x>>
        series(a) == c(a[1]) \o <<"-">> \o c(a[2]) \o <<"-">> \o c(a[3]) \o <<"-">>
                         \o c(a[4]) \o <<"-">> \o c(a[5]) \o <<"-">> \o c(a[6])
        Dark == <<"D", "a", "r", "k", " ">> \o series(<<"0", "f", "1", "2", "3", "4">>)
        Light == <<"L", "i", "g", "h", "t", " ">> \o series(<<"f", "0", "4", "3", "2", "1">>)
        Broken == <<"B", "r", "o", "k", "e", "n", " ",
                    "o", "n", "l", "y", "t", "o", "k", "e", "n">>
        OneToken == <<"n", "o", "t", "h", "e", "m", "e">>
    IN  {None, Some(<<>>), Some(<<Dark>>), Some(<<Dark, Light>>), Some(<<Broken>>),
         Some(<<Broken, Broken>>), Some(<<Broken, Dark>>), Some(<<OneToken>>),
         Some(<<OneToken, Dark>>), Some(<<Dark, OneToken, Light>>)}

(* ------------------------------- state -------------------------------- *)

VARIABLES
    main_pc,             \* where the main thread is
    args,                \* the parsed command line
    app,                 \* the fields of App owned by the main thread
    results,             \* SearchState.results
    is_loading_query,    \* SearchState.is_loading_query
    markdown_spans,      \* ArticleState.markdown_spans
    link_span_indices,   \* ArticleState.link_span_indices
    is_valid_page,       \* ArticleState.is_valid_page
    has_loaded_article,  \* ArticleState.has_loaded_article
    locks,               \* the holder of each slot's mutex
    search_threads,      \* the units of work spawned by load_search_query_to_app
    article_threads      \* the units of work spawned by load_article_to_app

vars == <<main_pc, args, app, results, is_loading_query, markdown_spans,
          link_span_indices, is_valid_page, has_loaded_article, locks,
          search_threads, article_threads>>

Slots == {"results", "is_loading_query", "markdown_spans", "link_span_indices",
          "is_valid_page", "has_loaded_article"}

Free == <<"free", 0>>
MainThread == <<"main", 0>>
SearchThread(i) == <<"search", i>>
ArticleThread(i) == <<"article", i>>

IdleSearch == [pc |-> "idle", query |-> <<>>]
IdleArticle == [pc |-> "idle", title |-> <<>>]

\* the part of the state a method of App reads and writes; overflow records
\* that the method left the bounds of the model, panic that it panicked
World == [app |-> app, results |-> results, is_loading_query |-> is_loading_query,
          markdown_spans |-> markdown_spans, link_span_indices |-> link_span_indices,
          locks |-> locks, search_threads |-> search_threads,
          article_threads |-> article_threads, overflow |-> FALSE,
          panic |-> FALSE]

\* a method of App returned leaving w; the slots' contents are not written
\* by the main thread except for the loading flag
Returns(w) ==
    /\ ~w.overflow
    /\ app' = w.app
    /\ is_loading_query' = w.is_loading_query
    /\ search_threads' = w.search_threads
    /\ article_threads' = w.article_threads
    /\ UNCHANGED <<args, results, markdown_spans, link_span_indices,
                   is_valid_page, has_loaded_article, locks>>

SearchMenuOptions == <<"Resume", "Themes", "Credits", "Quit">>
ArticleMenuOptions == <<"Resume", "Search", "Go back", "Go forward", "Quit">>
CreditOptions == <<"Go to repo!", "Back to menu">>

\* App::default
AppDefault ==
    [title |-> [input |-> <<>>, cursor_pos |-> 0],
     search |-> [input |-> <<>>, current_query |-> <<>>, cursor_pos |-> 0,
                 selected_index |-> 0, text_box_is_highlighted |-> TRUE],
     search_menu |-> [selected_index |-> 0],
     credit |-> [selected_index |-> 0],
     article |-> [article_name |-> <<"P", "h", "i", "l", "o", "s", "o", "p", "h", "y">>,
                  selected_link_index |-> 0, vertical_scroll |-> 0,
                  back_history |-> <<>>, forward_history |-> <<>>],
     article_menu |-> [selected_index |-> 0],
     theme_menu |-> [themes |-> ThemeNames, selected_index |-> 0],
     is_running |-> FALSE,
     state |-> "Title",
     theme |-> "Default"]

Init ==
    /\ main_pc = "start"
    /\ args \in [search : ArgsSearch, page : ArgsPage]
    /\ app = AppDefault
    /\ results = <<>>
    /\ is_loading_query = FALSE
    /\ markdown_spans = <<>>
    /\ link_span_indices = <<>>
    /\ is_valid_page = TRUE
    /\ has_loaded_article = FALSE
    /\ locks = [s \in Slots |-> Free]
    /\ search_threads = [i \in 1..MaxSearchThreads |-> IdleSearch]
    /\ article_threads = [i \in 1..MaxArticleThreads |-> IdleArticle]

(* ------------------- TypeableState (app.rs 102-177) ------------------- *)

LEFT == "LEFT"
RIGHT == "RIGHT"
UP == "UP"
DOWN == "DOWN"

Key(code, c, ctrl) == [code |-> code, c |-> c, ctrl |-> ctrl]

\* the key events TypeableState::handle_key reacts to
TextKeys ==
    {Key("Char", c, FALSE) : c \in Chars}
        \cup {Key(code, "", ctrl) : code \in {"Left", "Right"}, ctrl \in BOOLEAN}
        \cup {Key("Backspace", "", FALSE)}

\* a text buffer is [input, cursor_pos, panic]: input is the sequence of
\* the bytes of the String, cursor_pos an index into them (String::len
\* counts bytes), and panic records that an operation on the String panicked
move_cursor_to_start(buf) == [buf EXCEPT !.cursor_pos = 0]

move_cursor_to_end(buf) == [buf EXCEPT !.cursor_pos = Len(buf.input)]

\* a step that relies on the clamp alone: RIGHT without the test against
\* the length
move_cursor_one_step_unguarded(buf, cursor_direction) ==
    LET moved ==
            IF cursor_direction = LEFT
            THEN Max(buf.cursor_pos - 1, 0)
            ELSE buf.cursor_pos + 1
    IN  [buf EXCEPT !.cursor_pos = Clamp(moved, 0, Len(buf.input) + 1)]

move_cursor_one_step(buf, cursor_direction) ==
    LET moved ==
            IF cursor_direction = LEFT
            THEN Max(buf.cursor_pos - 1, 0)
            ELSE IF buf.cursor_pos < Len(buf.input)
                 THEN buf.cursor_pos + 1
                 ELSE buf.cursor_pos
    IN  [buf EXCEPT !.cursor_pos = Clamp(moved, 0, Len(buf.input) + 1)]

\* String::insert asserts that cursor_pos is a character boundary
insert_to_input_at_cursor(buf, c) ==
    IF is_char_boundary(buf.input, buf.cursor_pos)
    THEN [buf EXCEPT !.input = StringInsert(buf.input, buf.cursor_pos, c)]
    ELSE [buf EXCEPT !.panic = TRUE]

\* String::remove slices the String at cursor_pos - 1, which panics unless
\* that is a character boundary
remove_from_input_at_cursor(buf) ==
    IF buf.cursor_pos <= Len(buf.input) /\ buf.cursor_pos > 0
    THEN IF is_char_boundary(buf.input, buf.cursor_pos - 1)
         THEN [buf EXCEPT !.input = StringRemove(buf.input, buf.cursor_pos - 1)]
         ELSE [buf EXCEPT !.panic = TRUE]
    ELSE buf

type_char(buf, c) ==
    IF ~(buf.cursor_pos > Len(buf.input))
    THEN move_cursor_one_step(insert_to_input_at_cursor(buf, c), RIGHT)
    ELSE buf

backspace(buf) ==
    IF ~(Len(buf.input) = 0) /\ buf.cursor_pos > 0
    THEN move_cursor_one_step(remove_from_input_at_cursor(buf), LEFT)
    ELSE buf

handle_key(buf, key) ==
    IF key.code = "Char" THEN type_char(buf, key.c)
    ELSE IF key.code = "Backspace" THEN backspace(buf)
    ELSE IF key.code = "Left" /\ key.ctrl THEN move_cursor_to_start(buf)
    ELSE IF key.code = "Left" THEN move_cursor_one_step(buf, LEFT)
    ELSE IF key.code = "Right" /\ key.ctrl THEN move_cursor_to_end(buf)
    ELSE IF key.code = "Right" THEN move_cursor_one_step(buf, RIGHT)
    ELSE buf

TextOf(st) == [input |-> st.input, cursor_pos |-> st.cursor_pos, panic |-> FALSE]

\* TitleState: trigger_text_focus is the default, empty, method
title_handle_key(title, key) ==
    LET buf == handle_key(TextOf(title), key)
    IN  [title EXCEPT !.input = buf.input, !.cursor_pos = buf.cursor_pos]

\* a handle_key that focuses the text box only when the operation changed
\* the text or the cursor
search_handle_key_focus_on_change(search, key) ==
    LET buf == handle_key(TextOf(search), key)
    IN  [search EXCEPT !.input = buf.input, !.cursor_pos = buf.cursor_pos,
                       !.text_box_is_highlighted =
                           search.text_box_is_highlighted \/ buf # TextOf(search)]

\* SearchState: every operation ends in trigger_text_focus (app.rs 276-278)
search_handle_key(search, key) ==
    LET buf == handle_key(TextOf(search), key)
    IN  [search EXCEPT !.input = buf.input, !.cursor_pos = buf.cursor_pos,
                       !.text_box_is_highlighted = TRUE]

(* --------------------- ActionMenu (app.rs 63-100) --------------------- *)

\* a scroll that stops at the first and at the last item
scroll_without_wrap(selected_index, total_options, scroll_direction) ==
    IF total_options = 0 THEN selected_index
    ELSE IF scroll_direction = DOWN
    THEN Min(selected_index + 1, total_options - 1)
    ELSE Max(selected_index - 1, 0)

\* a scroll that goes on past the last item
scroll_past_last(selected_index, total_options, scroll_direction) ==
    IF total_options = 0 THEN selected_index
    ELSE IF scroll_direction = DOWN
    THEN selected_index + 1
    ELSE remainder(selected_index - 1, total_options)

scroll(selected_index, total_options, scroll_direction) ==
    IF total_options = 0 THEN selected_index
    ELSE IF scroll_direction = DOWN
    THEN remainder(selected_index + 1, total_options)
    ELSE remainder(selected_index - 1, total_options)

(* ----------------------- the slots and threads ------------------------ *)

LockFree(w, slot) == w.locks[slot] = Free

FreeSearchThreads(w) == {i \in 1..MaxSearchThreads : w.search_threads[i].pc = "idle"}
FreeArticleThreads(w) == {i \in 1..MaxArticleThreads : w.article_threads[i].pc = "idle"}

LowestOf(S) == CHOOSE i \in S : \A j \in S : i <= j

Overflow(w) == [w EXCEPT !.overflow = TRUE]

\* wikipedia::load_search_query_to_app: sets the loading flag, then spawns
\* the unit of work
load_search_query_to_app(w, input) ==
    IF FreeSearchThreads(w) = {} \/ ~LockFree(w, "is_loading_query")
    THEN Overflow(w)
    ELSE [w EXCEPT !.is_loading_query = TRUE,
                   !.search_threads[LowestOf(FreeSearchThreads(w))] =
                       [pc |-> "fetch", query |-> input]]

\* wikipedia::load_article_to_app: spawns the unit of work
load_article_to_app(w, title) ==
    IF FreeArticleThreads(w) = {}
    THEN Overflow(w)
    ELSE [w EXCEPT !.article_threads[LowestOf(FreeArticleThreads(w))] =
                       [pc |-> "fetch", title |-> title]]

(* --------------------- SearchState (app.rs 218-251) ------------------- *)

\* currently_loading with the flag read the wrong way round
currently_loading_negated(w) ==
    IF LockFree(w, "is_loading_query") THEN ~w.is_loading_query ELSE TRUE

currently_loading(w) ==
    IF LockFree(w, "is_loading_query") THEN w.is_loading_query ELSE TRUE

\* the part of scroll_results that runs once results.lock() has returned
scroll_results_locked(w, scroll_direction) ==
    IF Len(w.results) > 0
    THEN [w EXCEPT !.app.search.selected_index =
             IF scroll_direction = DOWN
             THEN remainder(w.app.search.selected_index + 1, Len(w.results))
             ELSE remainder(w.app.search.selected_index - 1, Len(w.results))]
    ELSE w

selected_search_result_title(w) ==
    IF InRange(w.results, w.app.search.selected_index)
    THEN Some(Get(w.results, w.app.search.selected_index))
    ELSE None

(* -------------------- ArticleState (app.rs 338-389) ------------------- *)

scroll_link(w, direction) ==
    IF LockFree(w, "link_span_indices") /\ Len(w.link_span_indices) > 0
    THEN LET total_indices == Len(w.link_span_indices)
             increment == IF direction = UP THEN total_indices - 1
                                            ELSE total_indices + 1
         IN  [w EXCEPT !.app.article.selected_link_index =
                 remainder(w.app.article.selected_link_index + increment, total_indices)]
    ELSE w

scroll_vertically(w, direction) ==
    IF direction = UP
    THEN [w EXCEPT !.app.article.vertical_scroll = Max(w.app.article.vertical_scroll - 1, 0)]
    ELSE IF w.app.article.vertical_scroll >= MaxScroll
    THEN Overflow(w)
    ELSE [w EXCEPT !.app.article.vertical_scroll = w.app.article.vertical_scroll + 1]

get_selected_link(w) ==
    IF /\ LockFree(w, "link_span_indices")
       /\ InRange(w.link_span_indices, w.app.article.selected_link_index)
       /\ LockFree(w, "markdown_spans")
       /\ InRange(w.markdown_spans,
                  Get(w.link_span_indices, w.app.article.selected_link_index))
    THEN Get(w.markdown_spans,
             Get(w.link_span_indices, w.app.article.selected_link_index)).link
    ELSE None

\* go_back_a_page with push_back in place of push_front
go_back_a_page_pushes_back(article) ==
    IF Len(article.back_history) <= 1 THEN article
    ELSE [article EXCEPT
            !.back_history = SubSeq(article.back_history, 1, Len(article.back_history) - 1),
            !.forward_history =
                Append(article.forward_history,
                       article.back_history[Len(article.back_history)])]

go_back_a_page(article) ==
    IF Len(article.back_history) <= 1 THEN article
    ELSE [article EXCEPT
            !.back_history = SubSeq(article.back_history, 1, Len(article.back_history) - 1),
            !.forward_history =
                <<article.back_history[Len(article.back_history)]>> \o article.forward_history]

\* go_forward_a_page that reads the front of forward_history and leaves it
go_forward_a_page_keeps_front(article) ==
    IF Len(article.forward_history) = 0 THEN article
    ELSE [article EXCEPT
            !.back_history = Append(article.back_history, Head(article.forward_history))]

\* go_forward_a_page with pop_back in place of pop_front
go_forward_a_page_pops_back(article) ==
    IF Len(article.forward_history) = 0 THEN article
    ELSE [article EXCEPT
            !.forward_history =
                SubSeq(article.forward_history, 1, Len(article.forward_history) - 1),
            !.back_history =
                Append(article.back_history,
                       article.forward_history[Len(article.forward_history)])]

go_forward_a_page(article) ==
    IF Len(article.forward_history) = 0 THEN article
    ELSE [article EXCEPT
            !.forward_history = Tail(article.forward_history),
            !.back_history = Append(article.back_history, Head(article.forward_history))]

(* ------------------------- App (app.rs 546-660) ----------------------- *)

\* load_wikipedia_search_query without the test of currently_loading
load_wikipedia_search_query_ungated(w) ==
    LET input == w.app.search.input
        loaded ==
            IF Len(input) > 0
            THEN load_search_query_to_app(
                     [w EXCEPT !.app.search.current_query = input], input)
            ELSE w
    IN  [loaded EXCEPT !.app.search.text_box_is_highlighted = FALSE]

\* a request that takes the focus from the text box only when it is accepted
load_wikipedia_search_query_keeps_focus(w) ==
    LET input == w.app.search.input
    IN  IF Len(input) > 0 /\ ~currently_loading(w)
        THEN [load_search_query_to_app(
                  [w EXCEPT !.app.search.current_query = input], input)
                 EXCEPT !.app.search.text_box_is_highlighted = FALSE]
        ELSE w

\* a request that stores the input in current_query also when it is dropped
load_wikipedia_search_query_stores_dropped(w) ==
    LET input == w.app.search.input
        loaded ==
            IF Len(input) > 0 /\ ~currently_loading(w)
            THEN load_search_query_to_app(
                     [w EXCEPT !.app.search.current_query = input], input)
            ELSE [w EXCEPT !.app.search.current_query = input]
    IN  [loaded EXCEPT !.app.search.text_box_is_highlighted = FALSE]

load_wikipedia_search_query(w) ==
    LET input == w.app.search.input
        loaded ==
            IF Len(input) > 0 /\ ~currently_loading(w)
            THEN load_search_query_to_app(
                     [w EXCEPT !.app.search.current_query = input], input)
            ELSE w
    IN  [loaded EXCEPT !.app.search.text_box_is_highlighted = FALSE]

\* search_and_load that searches for what the search input already holds
search_and_load_keeps_input(w, title) ==
    load_wikipedia_search_query([w EXCEPT !.app.state = "Search"])

search_and_load(w, title) ==
    load_wikipedia_search_query(
        [w EXCEPT !.app.state = "Search", !.app.search.input = title])

\* set_article_page that records the title and issues no load
set_article_page_without_load(w, title) ==
    [w EXCEPT !.app.article.article_name = title]

\* set_article_page that hands the load over only when none is outstanding
set_article_page_gated(w, title) ==
    LET named == [w EXCEPT !.app.article.article_name = title]
    IN  IF FreeArticleThreads(w) = 1..MaxArticleThreads
        THEN load_article_to_app(named, title)
        ELSE named

set_article_page(w, title) ==
    load_article_to_app([w EXCEPT !.app.article.article_name = title], title)

\* view_selected_article_from_search that keeps forward_history
view_selected_article_from_search_keeps_forward(w) ==
    LET selected == selected_search_result_title(w)
    IN  IF selected # None
        THEN LET title == selected[1]
                 loaded == set_article_page([w EXCEPT !.app.state = "Article"], title)
             IN  [loaded EXCEPT !.app.article.back_history = <<title>>]
        ELSE [w EXCEPT !.app.state = "SearchMenu"]

\* the part of view_selected_article_from_search that runs once the
\* results.lock() of selected_search_result_title has returned
view_selected_article_from_search(w) ==
    LET selected == selected_search_result_title(w)
    IN  IF selected # None
        THEN LET title == selected[1]
                 loaded == set_article_page([w EXCEPT !.app.state = "Article"], title)
             IN  [loaded EXCEPT !.app.article.back_history = <<title>>,
                                !.app.article.forward_history = <<>>]
        ELSE [w EXCEPT !.app.state = "SearchMenu"]

\* view_selected_article_from_selected_link that keeps forward_history
view_selected_article_from_selected_link_keeps_forward(w) ==
    LET selected == get_selected_link(w)
    IN  IF selected # None
        THEN LET formatted_title == FormatTitle(selected[1])
                 reset == [w EXCEPT !.app.article.selected_link_index = 0,
                                    !.app.article.vertical_scroll = 0]
                 loaded == set_article_page(reset, formatted_title)
             IN  IF Len(w.app.article.back_history) >= MaxHistory
                 THEN Overflow(w)
                 ELSE [loaded EXCEPT
                         !.app.article.back_history =
                             Append(loaded.app.article.back_history, formatted_title)]
        ELSE w

view_selected_article_from_selected_link(w) ==
    LET selected == get_selected_link(w)
    IN  IF selected # None
        THEN LET formatted_title == FormatTitle(selected[1])
                 reset == [w EXCEPT !.app.article.selected_link_index = 0,
                                    !.app.article.vertical_scroll = 0]
                 loaded == set_article_page(reset, formatted_title)
             IN  IF Len(w.app.article.back_history) >= MaxHistory
                 THEN Overflow(w)
                 ELSE [loaded EXCEPT
                         !.app.article.forward_history = <<>>,
                         !.app.article.back_history =
                             Append(loaded.app.article.back_history, formatted_title)]
        ELSE w

load_page_from_history(w) ==
    IF Len(w.app.article.back_history) > 0
    THEN set_article_page(w, w.app.article.back_history[Len(w.app.article.back_history)])
    ELSE w

\* go_to_previous_article that moves the history and loads nothing
go_to_previous_article_without_load(w) ==
    [w EXCEPT !.app.article = go_back_a_page(w.app.article)]

go_to_previous_article(w) ==
    load_page_from_history([w EXCEPT !.app.article = go_back_a_page(w.app.article)])

go_to_next_article(w) ==
    load_page_from_history([w EXCEPT !.app.article = go_forward_a_page(w.app.article)])

\* the callbacks bound to the menu items in App::default (app.rs 483-540)
\* the items Themes and Credits taken for one another
search_menu_action_swapped(w, index) ==
    IF index = 0 THEN [w EXCEPT !.app.state = "Search"]
    ELSE IF index = 1 THEN [w EXCEPT !.app.state = "Credit"]
    ELSE IF index = 2 THEN [w EXCEPT !.app.state = "ThemeMenu"]
    ELSE [w EXCEPT !.app.is_running = FALSE]

search_menu_action(w, index) ==
    IF index = 0 THEN [w EXCEPT !.app.state = "Search"]
    ELSE IF index = 1 THEN [w EXCEPT !.app.state = "ThemeMenu"]
    ELSE IF index = 2 THEN [w EXCEPT !.app.state = "Credit"]
    ELSE [w EXCEPT !.app.is_running = FALSE]

article_menu_action(w, index) ==
    IF index = 0 THEN [w EXCEPT !.app.state = "Article"]
    ELSE IF index = 1 THEN [w EXCEPT !.app.state = "Search"]
    ELSE IF index = 2 THEN go_to_previous_article(w)
    ELSE IF index = 3 THEN go_to_next_article(w)
    ELSE [w EXCEPT !.app.is_running = FALSE]

credit_action(w, index) ==
    IF index = 0 THEN w
    ELSE [w EXCEPT !.app.state = "SearchMenu"]

theme_menu_action(w, index) ==
    [w EXCEPT !.app.theme = Get(w.app.theme_menu.themes, w.app.theme_menu.selected_index)]

(* ------------------ startup (main.rs 31-84) --------------------------- *)

\* a handler of the event loop ends: the loop goes on, or the panic of the
\* handler unwinds main and ends the process
ToLoop(w) ==
    IF w.panic
    THEN main_pc' = "panicked"
         /\ UNCHANGED <<args, app, results, is_loading_query, markdown_spans,
                        link_span_indices, is_valid_page, has_loaded_article,
                        locks, search_threads, article_threads>>
    ELSE main_pc' = "loop" /\ Returns(w)

\* App::new with the ./themes.txt it finds: the themes are kept whole, with
\* their colours, and one option per theme is pushed (app.rs 534-541)
AppNew(themes_txt) ==
    /\ main_pc = "new"
    /\ main_pc' = "start"
    /\ app' = [app EXCEPT !.theme_menu.themes = theme_menu_themes(themes_txt)]
    /\ UNCHANGED <<args, results, is_loading_query, markdown_spans,
                   link_span_indices, is_valid_page, has_loaded_article, locks,
                   search_threads, article_threads>>

\* app.is_running = true, then --search
Startup ==
    /\ main_pc = "start"
    /\ main_pc' = "page_arg"
    /\ LET running == [World EXCEPT !.app.is_running = TRUE]
       IN  Returns(IF args.search # None
                   THEN search_and_load(running, args.search[1])
                   ELSE running)

\* --page: try_getting_page up to its wait loop
StartupPage ==
    /\ main_pc = "page_arg"
    /\ IF args.page # None
       THEN /\ main_pc' = "try_getting_page"
            /\ Returns(set_article_page(World, args.page[1]))
       ELSE ToLoop(World)

\* one turn of the wait loop that finds the flag free and true: the guard
\* of has_loaded_article is kept while is_valid_page is locked
TryGettingPagePoll ==
    /\ main_pc = "try_getting_page"
    /\ locks["has_loaded_article"] = Free
    /\ has_loaded_article = TRUE
    /\ main_pc' = "lock_is_valid_page"
    /\ locks' = [locks EXCEPT !["has_loaded_article"] = MainThread]
    /\ UNCHANGED <<args, app, results, is_loading_query, markdown_spans,
                   link_span_indices, is_valid_page, has_loaded_article,
                   search_threads, article_threads>>

\* try_getting_page with the test of is_valid_page negated
try_getting_page_finish_negated(w, title, is_valid) ==
    IF ~is_valid
    THEN [w EXCEPT !.app.state = "Article"]
    ELSE search_and_load(w, title)

\* the branch of try_getting_page on the validity read
try_getting_page_finish(w, title, is_valid) ==
    IF is_valid
    THEN [w EXCEPT !.app.state = "Article"]
    ELSE search_and_load(w, title)

\* is_valid_page.lock() returns; both guards are dropped
TryGettingPageReturn ==
    /\ main_pc = "lock_is_valid_page"
    /\ locks["is_valid_page"] = Free
    /\ main_pc' = "loop"
    /\ LET w == try_getting_page_finish(World, args.page[1], is_valid_page)
       IN  /\ ~w.overflow
           /\ app' = w.app
           /\ is_loading_query' = w.is_loading_query
           /\ search_threads' = w.search_threads
           /\ article_threads' = w.article_threads
    /\ locks' = [locks EXCEPT !["has_loaded_article"] = Free]
    /\ UNCHANGED <<args, results, markdown_spans, link_span_indices,
                   is_valid_page, has_loaded_article>>

(* ------------------ the event loop (main.rs 109-260) ------------------ *)

InLoop(screen) == main_pc = "loop" /\ app.is_running /\ app.state = screen

Exit ==
    /\ main_pc = "loop"
    /\ ~app.is_running
    /\ main_pc' = "exit"
    /\ UNCHANGED <<args, app, results, is_loading_query, markdown_spans,
                   link_span_indices, is_valid_page, has_loaded_article, locks,
                   search_threads, article_threads>>

TitleEnter ==
    /\ InLoop("Title")
    /\ ToLoop(search_and_load(World, app.title.input))

TitleEsc ==
    /\ InLoop("Title")
    /\ ToLoop([World EXCEPT !.app.is_running = FALSE])

\* _ => app.title.handle_key(key), on a buffer of at most max_len bytes
TitleKey(max_len) ==
    /\ InLoop("Title")
    /\ \E key \in TextKeys :
          /\ key.code = "Char" => Len(app.title.input) + Len(Utf8(key.c)) <= max_len
          /\ ToLoop([World EXCEPT
                        !.app.title = title_handle_key(app.title, key),
                        !.panic = handle_key(TextOf(app.title), key).panic])

SearchEsc ==
    /\ InLoop("Search")
    /\ ToLoop([World EXCEPT !.app.state = "SearchMenu"])

SearchF1 ==
    /\ InLoop("Search")
    /\ ToLoop([World EXCEPT !.app.is_running = FALSE])

\* Enter with the text box focused
SearchEnterQuery ==
    /\ InLoop("Search")
    /\ app.search.text_box_is_highlighted
    /\ ToLoop(load_wikipedia_search_query(World))

\* Enter with the result list focused, up to results.lock()
SearchEnterResult ==
    /\ InLoop("Search")
    /\ ~app.search.text_box_is_highlighted
    /\ main_pc' = "selected_search_result_title"
    /\ Returns(World)

\* results.lock() returns
ViewSelectedArticle ==
    /\ main_pc = "selected_search_result_title"
    /\ locks["results"] = Free
    /\ ToLoop(view_selected_article_from_search(World))

\* Up / Down: scroll_results up to results.lock()
SearchScroll ==
    /\ InLoop("Search")
    /\ \E direction \in {UP, DOWN} :
          IF ~currently_loading(World)
          THEN /\ main_pc' = (IF direction = UP THEN "scroll_results_up"
                                                ELSE "scroll_results_down")
               /\ Returns(World)
          ELSE ToLoop([World EXCEPT !.app.search.text_box_is_highlighted = FALSE])

\* results.lock() returns
ScrollResults ==
    /\ main_pc \in {"scroll_results_up", "scroll_results_down"}
    /\ locks["results"] = Free
    /\ LET scrolled == scroll_results_locked(
                           World, IF main_pc = "scroll_results_up" THEN UP ELSE DOWN)
       IN  ToLoop([scrolled EXCEPT !.app.search.text_box_is_highlighted = FALSE])

\* _ => app.search.handle_key(key), on a buffer of at most max_len bytes
SearchKey(max_len) ==
    /\ InLoop("Search")
    /\ \E key \in TextKeys :
          /\ key.code = "Char" => Len(app.search.input) + Len(Utf8(key.c)) <= max_len
          /\ ToLoop([World EXCEPT
                        !.app.search = search_handle_key(app.search, key),
                        !.panic = handle_key(TextOf(app.search), key).panic])

SearchMenuEsc ==
    /\ InLoop("SearchMenu")
    /\ ToLoop([World EXCEPT !.app.state = "Search"])

SearchMenuScroll ==
    /\ InLoop("SearchMenu")
    /\ \E direction \in {UP, DOWN} :
          ToLoop([World EXCEPT !.app.search_menu.selected_index =
                     scroll(app.search_menu.selected_index, Len(SearchMenuOptions),
                            direction)])

SearchMenuEnter ==
    /\ InLoop("SearchMenu")
    /\ ToLoop(search_menu_action(World, app.search_menu.selected_index))

SearchMenuF1 ==
    /\ InLoop("SearchMenu")
    /\ ToLoop([World EXCEPT !.app.is_running = FALSE])

\* Esc in Credit leading to Search
CreditEsc_to_search ==
    /\ InLoop("Credit")
    /\ ToLoop([World EXCEPT !.app.state = "Search"])

CreditEsc ==
    /\ InLoop("Credit")
    /\ ToLoop([World EXCEPT !.app.state = "SearchMenu"])

CreditScroll ==
    /\ InLoop("Credit")
    /\ \E direction \in {UP, DOWN} :
          ToLoop([World EXCEPT !.app.credit.selected_index =
                     scroll(app.credit.selected_index, Len(CreditOptions), direction)])

CreditEnter ==
    /\ InLoop("Credit")
    /\ ToLoop(credit_action(World, app.credit.selected_index))

ArticleEsc ==
    /\ InLoop("Article")
    /\ ToLoop([World EXCEPT !.app.state = "ArticleMenu"])

\* Left / Right
ArticleScrollLink ==
    /\ InLoop("Article")
    /\ \E direction \in {UP, DOWN} : ToLoop(scroll_link(World, direction))

\* Up / Down
ArticleScrollVertically ==
    /\ InLoop("Article")
    /\ \E direction \in {UP, DOWN} : ToLoop(scroll_vertically(World, direction))

ArticleEnter ==
    /\ InLoop("Article")
    /\ ToLoop(view_selected_article_from_selected_link(World))

ArticleMenuEsc ==
    /\ InLoop("ArticleMenu")
    /\ ToLoop([World EXCEPT !.app.state = "Article"])

ArticleMenuScroll ==
    /\ InLoop("ArticleMenu")
    /\ \E direction \in {UP, DOWN} :
          ToLoop([World EXCEPT !.app.article_menu.selected_index =
                     scroll(app.article_menu.selected_index, Len(ArticleMenuOptions),
                            direction)])

ArticleMenuEnter ==
    /\ InLoop("ArticleMenu")
    /\ ToLoop(article_menu_action(World, app.article_menu.selected_index))

ThemeMenuEnter ==
    /\ InLoop("ThemeMenu")
    /\ ToLoop(theme_menu_action(World, app.theme_menu.selected_index))

ThemeMenuEsc ==
    /\ InLoop("ThemeMenu")
    /\ ToLoop([World EXCEPT !.app.state = "Search"])

\* Up / Down that also makes the theme scrolled to the theme of the program
ThemeMenuScroll_applies_theme ==
    /\ InLoop("ThemeMenu")
    /\ \E direction \in {UP, DOWN} :
          LET index == scroll(app.theme_menu.selected_index,
                              Len(app.theme_menu.themes), direction)
          IN  ToLoop([World EXCEPT !.app.theme_menu.selected_index = index,
                                   !.app.theme = Get(app.theme_menu.themes, index)])

ThemeMenuScroll ==
    /\ InLoop("ThemeMenu")
    /\ \E direction \in {UP, DOWN} :
          ToLoop([World EXCEPT !.app.theme_menu.selected_index =
                     scroll(app.theme_menu.selected_index,
                            Len(app.theme_menu.themes), direction)])

(* ------------------------- rendering (ui.rs) -------------------------- *)

\* draw_article reads a flag named is_loading_article; ArticleState holds
\* the flag as has_loaded_article, the same slot with the opposite sense
is_loading_article == ~has_loaded_article

\* what draw_search puts in the result block (ui.rs 141-226)
draw_search ==
    LET is_loading == locks["is_loading_query"] = Free /\ is_loading_query
    IN  IF ~is_loading /\ locks["results"] = Free THEN "Results" ELSE "Loading..."

\* what draw_article shows before it reads the content slots (ui.rs 332-397)
draw_article ==
    IF locks["has_loaded_article"] = Free
    THEN IF is_loading_article THEN "Loading..." ELSE "Content"
    ELSE "Error loading page..."

\* terminal.draw: draw_article goes on to markdown_spans.lock()
Draw ==
    /\ main_pc = "loop"
    /\ app.is_running
    /\ main_pc' = IF app.state \in {"Article", "ArticleMenu"} /\ draw_article = "Content"
                  THEN "draw_markdown_spans"
                  ELSE "loop"
    /\ Returns(World)

\* markdown_spans.lock() returns; the guard is dropped with the statement
DrawMarkdownSpans ==
    /\ main_pc = "draw_markdown_spans"
    /\ locks["markdown_spans"] = Free
    /\ main_pc' = "draw_link_span_indices"
    /\ Returns(World)

\* link_span_indices.lock() returns
DrawLinkSpanIndices ==
    /\ main_pc = "draw_link_span_indices"
    /\ locks["link_span_indices"] = Free
    /\ ToLoop(World)

(* ------------------- the search unit of work -------------------------- *)

SearchStep(i, from, to) ==
    /\ search_threads[i].pc = from
    /\ search_threads' = [search_threads EXCEPT ![i].pc = to]

\* the fetch succeeded: results.lock(), the result list is written
SearchWriteResults(i) ==
    /\ SearchStep(i, "fetch", "results_locked")
    /\ locks["results"] = Free
    /\ locks' = [locks EXCEPT !["results"] = SearchThread(i)]
    /\ results' = ServiceSearch(search_threads[i].query)
    /\ UNCHANGED <<main_pc, args, app, is_loading_query, markdown_spans,
                   link_span_indices, is_valid_page, has_loaded_article,
                   article_threads>>

\* the fetch failed: the result list is left as it is
SearchFetchFailed(i) ==
    /\ SearchStep(i, "fetch", "clear_flag")
    /\ UNCHANGED <<main_pc, args, app, results, is_loading_query, markdown_spans,
                   link_span_indices, is_valid_page, has_loaded_article, locks,
                   article_threads>>

SearchUnlockResults(i) ==
    /\ SearchStep(i, "results_locked", "clear_flag")
    /\ locks' = [locks EXCEPT !["results"] = Free]
    /\ UNCHANGED <<main_pc, args, app, results, is_loading_query, markdown_spans,
                   link_span_indices, is_valid_page, has_loaded_article,
                   article_threads>>

\* is_loading_query.lock(), the flag is set false
SearchClearFlag(i) ==
    /\ SearchStep(i, "clear_flag", "flag_locked")
    /\ locks["is_loading_query"] = Free
    /\ locks' = [locks EXCEPT !["is_loading_query"] = SearchThread(i)]
    /\ is_loading_query' = FALSE
    /\ UNCHANGED <<main_pc, args, app, results, markdown_spans,
                   link_span_indices, is_valid_page, has_loaded_article,
                   article_threads>>

\* the guard is dropped and the unit of work ends
SearchFinish(i) ==
    /\ search_threads[i].pc = "flag_locked"
    /\ search_threads' = [search_threads EXCEPT ![i] = IdleSearch]
    /\ locks' = [locks EXCEPT !["is_loading_query"] = Free]
    /\ UNCHANGED <<main_pc, args, app, results, is_loading_query, markdown_spans,
                   link_span_indices, is_valid_page, has_loaded_article,
                   article_threads>>

SearchThreadStep(i) ==
    \/ SearchWriteResults(i)
    \/ SearchFetchFailed(i)
    \/ SearchUnlockResults(i)
    \/ SearchClearFlag(i)
    \/ SearchFinish(i)

(* ------------------ the document unit of work ------------------------- *)

ArticleStep(i, from, to) ==
    /\ article_threads[i].pc = from
    /\ article_threads' = [article_threads EXCEPT ![i].pc = to]

ArticleLock(i, slot) ==
    /\ locks[slot] = Free
    /\ locks' = [locks EXCEPT ![slot] = ArticleThread(i)]

ArticleUnlock(i, slot) == locks' = [locks EXCEPT ![slot] = Free]

\* the fetch failed: only the has-loaded flag is set
ArticleFetchFailed(i) ==
    /\ ArticleStep(i, "fetch", "set_has_loaded")
    /\ UNCHANGED <<main_pc, args, app, results, is_loading_query, markdown_spans,
                   link_span_indices, is_valid_page, has_loaded_article, locks,
                   search_threads>>

ArticleWriteSpans(i) ==
    /\ ArticleStep(i, "fetch", "spans_locked")
    /\ ArticleLock(i, "markdown_spans")
    /\ markdown_spans' = ServiceDocument(article_threads[i].title).spans
    /\ UNCHANGED <<main_pc, args, app, results, is_loading_query,
                   link_span_indices, is_valid_page, has_loaded_article,
                   search_threads>>

ArticleUnlockSpans(i) ==
    /\ ArticleStep(i, "spans_locked", "write_links")
    /\ ArticleUnlock(i, "markdown_spans")
    /\ UNCHANGED <<main_pc, args, app, results, is_loading_query, markdown_spans,
                   link_span_indices, is_valid_page, has_loaded_article,
                   search_threads>>

ArticleWriteLinks(i) ==
    /\ ArticleStep(i, "write_links", "links_locked")
    /\ ArticleLock(i, "link_span_indices")
    /\ link_span_indices' = ServiceDocument(article_threads[i].title).links
    /\ UNCHANGED <<main_pc, args, app, results, is_loading_query, markdown_spans,
                   is_valid_page, has_loaded_article, search_threads>>

ArticleUnlockLinks(i) ==
    /\ ArticleStep(i, "links_locked", "write_valid")
    /\ ArticleUnlock(i, "link_span_indices")
    /\ UNCHANGED <<main_pc, args, app, results, is_loading_query, markdown_spans,
                   link_span_indices, is_valid_page, has_loaded_article,
                   search_threads>>

ArticleWriteValid(i) ==
    /\ ArticleStep(i, "write_valid", "valid_locked")
    /\ ArticleLock(i, "is_valid_page")
    /\ is_valid_page' = ServiceDocument(article_threads[i].title).valid
    /\ UNCHANGED <<main_pc, args, app, results, is_loading_query, markdown_spans,
                   link_span_indices, has_loaded_article, search_threads>>

ArticleUnlockValid(i) ==
    /\ ArticleStep(i, "valid_locked", "set_has_loaded")
    /\ ArticleUnlock(i, "is_valid_page")
    /\ UNCHANGED <<main_pc, args, app, results, is_loading_query, markdown_spans,
                   link_span_indices, is_valid_page, has_loaded_article,
                   search_threads>>

ArticleSetHasLoaded(i) ==
    /\ ArticleStep(i, "set_has_loaded", "has_loaded_locked")
    /\ ArticleLock(i, "has_loaded_article")
    /\ has_loaded_article' = TRUE
    /\ UNCHANGED <<main_pc, args, app, results, is_loading_query, markdown_spans,
                   link_span_indices, is_valid_page, search_threads>>

ArticleFinish(i) ==
    /\ article_threads[i].pc = "has_loaded_locked"
    /\ article_threads' = [article_threads EXCEPT ![i] = IdleArticle]
    /\ ArticleUnlock(i, "has_loaded_article")
    /\ UNCHANGED <<main_pc, args, app, results, is_loading_query, markdown_spans,
                   link_span_indices, is_valid_page, has_loaded_article,
                   search_threads>>

ArticleThreadStep(i) ==
    \/ ArticleFetchFailed(i)
    \/ ArticleWriteSpans(i)
    \/ ArticleUnlockSpans(i)
    \/ ArticleWriteLinks(i)
    \/ ArticleUnlockLinks(i)
    \/ ArticleWriteValid(i)
    \/ ArticleUnlockValid(i)
    \/ ArticleSetHasLoaded(i)
    \/ ArticleFinish(i)

(* --------------------------- specification ---------------------------- *)

StartupStep ==
    \/ Startup
    \/ StartupPage
    \/ TryGettingPagePoll
    \/ TryGettingPageReturn

KeyStep ==
    \/ TitleEnter \/ TitleEsc \/ TitleKey(MaxInputLen)
    \/ SearchEsc \/ SearchF1 \/ SearchEnterQuery \/ SearchEnterResult
    \/ ViewSelectedArticle \/ SearchScroll \/ ScrollResults \/ SearchKey(MaxInputLen)
    \/ SearchMenuEsc \/ SearchMenuScroll \/ SearchMenuEnter \/ SearchMenuF1
    \/ CreditEsc \/ CreditScroll \/ CreditEnter
    \/ ArticleEsc \/ ArticleScrollLink \/ ArticleScrollVertically \/ ArticleEnter
    \/ ArticleMenuEsc \/ ArticleMenuScroll \/ ArticleMenuEnter
    \/ ThemeMenuEnter \/ ThemeMenuEsc \/ ThemeMenuScroll

DrawStep == Draw \/ DrawMarkdownSpans \/ DrawLinkSpanIndices

ThreadStepSearch == \E i \in 1..MaxSearchThreads : SearchThreadStep(i)

ThreadStepArticle == \E i \in 1..MaxArticleThreads : ArticleThreadStep(i)

ThreadStep == ThreadStepSearch \/ ThreadStepArticle

\* the whole program: every key on every screen
Next == StartupStep \/ KeyStep \/ DrawStep \/ Exit \/ ThreadStep

Spec == Init /\ [][Next]_vars

\* The program before the event loop: the command line is applied while the
\* units of work it spawned run.
NextStartup == StartupStep \/ ThreadStep

SpecStartup == Init /\ [][NextStartup]_vars

\* main polls and the threads run to completion
FairStartup ==
    /\ SpecStartup
    /\ WF_vars(TryGettingPagePoll)
    /\ WF_vars(TryGettingPageReturn)
    /\ \A i \in 1..MaxSearchThreads : WF_vars(SearchThreadStep(i))
    /\ \A i \in 1..MaxArticleThreads : WF_vars(ArticleThreadStep(i))

\* A user who stays on the Title, Search and SearchMenu screens, types,
\* searches, moves through the results and opens one.
KeyStepSearch ==
    \/ TitleEnter \/ TitleEsc \/ TitleKey(MaxInputLen)
    \/ SearchEsc \/ SearchF1 \/ SearchEnterQuery \/ SearchEnterResult
    \/ ViewSelectedArticle \/ SearchScroll \/ ScrollResults \/ SearchKey(MaxInputLen)
    \/ SearchMenuEsc \/ SearchMenuF1

NextSearch == StartupStep \/ KeyStepSearch \/ Exit \/ ThreadStep

SpecSearch == Init /\ [][NextSearch]_vars

FairSearch ==
    /\ SpecSearch
    /\ \A i \in 1..MaxSearchThreads : WF_vars(SearchThreadStep(i))

\* A user who starts with --search or --page, opens results, follows links
\* and goes back and forward through the article menu, without typing.
InitNav ==
    /\ Init
    /\ args \in {[search |-> Some(<<"a">>), page |-> None],
                 [search |-> None, page |-> Some(PageA)]}

KeyStepNav ==
    \/ SearchEnterResult \/ ViewSelectedArticle \/ SearchScroll \/ ScrollResults
    \/ ArticleEsc \/ ArticleScrollLink \/ ArticleEnter
    \/ ArticleMenuEsc \/ ArticleMenuScroll \/ ArticleMenuEnter

NextNav == StartupStep \/ KeyStepNav \/ Exit \/ ThreadStep

SpecNav == InitNav /\ [][NextNav]_vars

\* A user who starts with --search and --page, and follows the links of the
\* document while the frames are drawn.
InitDraw ==
    /\ Init
    /\ args = [search |-> Some(<<"a">>), page |-> Some(PageA)]

KeyStepDraw == ArticleEsc \/ ArticleMenuEsc \/ ArticleScrollLink \/ ArticleEnter

NextDraw == StartupStep \/ KeyStepDraw \/ DrawStep \/ ThreadStep

SpecDraw == InitDraw /\ [][NextDraw]_vars

\* A user who starts with --page, follows links and goes back and forward
\* through the article menu.
InitHistory ==
    /\ Init
    /\ args = [search |-> None, page |-> Some(PageA)]

KeyStepHistory ==
    \/ ArticleEsc \/ ArticleScrollLink \/ ArticleEnter
    \/ ArticleMenuEsc \/ ArticleMenuScroll \/ ArticleMenuEnter

NextHistory == StartupStep \/ KeyStepHistory \/ Exit \/ ThreadStepArticle

SpecHistory == InitHistory /\ [][NextHistory]_vars

\* the program started without arguments: the first screen is Title
InitText ==
    /\ Init
    /\ args = [search |-> None, page |-> None]

\* A user who starts without --page, walks through the screens with Enter
\* and Esc, moves through the menus and runs their items.
InitScreens ==
    /\ Init
    /\ args.page = None

KeyStepScreens ==
    \/ TitleEnter \/ TitleEsc
    \/ SearchEsc \/ SearchEnterResult \/ ViewSelectedArticle
    \/ SearchMenuEsc \/ SearchMenuScroll \/ SearchMenuEnter
    \/ CreditEsc \/ CreditScroll \/ CreditEnter
    \/ ThemeMenuEsc \/ ThemeMenuScroll \/ ThemeMenuEnter
    \/ ArticleEsc
    \/ ArticleMenuEsc \/ ArticleMenuScroll \/ ArticleMenuEnter

NextScreens == Startup \/ StartupPage \/ KeyStepScreens \/ Exit \/ ThreadStep

SpecScreens == InitScreens /\ [][NextScreens]_vars

\* A user who starts without arguments and edits the text of the Title and
\* Search boxes, with the two-byte character among the keys.
NextText ==
    \/ Startup \/ StartupPage
    \/ TitleEnter \/ TitleEsc \/ TitleKey(MaxTextLen)
    \/ SearchF1 \/ SearchScroll \/ ScrollResults \/ SearchKey(MaxTextLen)
    \/ Exit \/ ThreadStepSearch

SpecText == InitText /\ [][NextText]_vars

\* A user who starts without arguments, edits the text of the two boxes,
\* opens a result and moves through each of the four menus.
NextFrame ==
    \/ Startup \/ StartupPage
    \/ TitleEnter \/ TitleKey(MaxInputLen)
    \/ SearchKey(MaxInputLen) \/ SearchEsc \/ SearchEnterResult \/ ViewSelectedArticle
    \/ SearchMenuScroll \/ SearchMenuEnter
    \/ CreditScroll \/ ThemeMenuScroll
    \/ ArticleEsc \/ ArticleMenuScroll
    \/ ThreadStepSearch

SpecFrame == InitText /\ [][NextFrame]_vars

\* the lengths of theme_menu.themes that App::default leaves, over the theme
\* files
ThemeListLengths == {Len(theme_menu_themes(themes_txt)) : themes_txt \in ThemeFiles}

\* The program from the construction of App on, started without arguments
\* in a directory with any of the theme files, and a user who goes to the
\* theme menu and chooses themes.
InitThemes ==
    /\ main_pc = "new"
    /\ args = [search |-> None, page |-> None]
    /\ app = AppDefault
    /\ results = <<>>
    /\ is_loading_query = FALSE
    /\ markdown_spans = <<>>
    /\ link_span_indices = <<>>
    /\ is_valid_page = TRUE
    /\ has_loaded_article = FALSE
    /\ locks = [s \in Slots |-> Free]
    /\ search_threads = [i \in 1..MaxSearchThreads |-> IdleSearch]
    /\ article_threads = [i \in 1..MaxArticleThreads |-> IdleArticle]

NextThemes ==
    \/ \E themes_txt \in ThemeFiles : AppNew(themes_txt)
    \/ Startup \/ StartupPage
    \/ TitleEnter \/ SearchEsc
    \/ SearchMenuEsc \/ SearchMenuScroll \/ SearchMenuEnter
    \/ ThemeMenuScroll \/ ThemeMenuEnter \/ ThemeMenuEsc

SpecThemes == InitThemes /\ [][NextThemes]_vars

(* ------------------------------ claims -------------------------------- *)

ActiveSearchThreads == {i \in 1..MaxSearchThreads : search_threads[i].pc # "idle"}
ActiveArticleThreads == {i \in 1..MaxArticleThreads : article_threads[i].pc # "idle"}

\* C1: at most one search unit of work exists, it works on current_query,
\* only it holds the mutex of the results and of the flag, and the flag is
\* true only while it exists; Enter in the text box while a search is
\* loading spawns nothing and leaves current_query, the flag and the
\* results as they are.
C1_AtMostOneSearch ==
    /\ [](/\ Cardinality(ActiveSearchThreads) <= 1
          /\ \A i \in ActiveSearchThreads :
                search_threads[i].query = app.search.current_query
          /\ \A slot \in {"results", "is_loading_query"} :
                locks[slot] \in {Free} \cup {SearchThread(i) : i \in ActiveSearchThreads}
          /\ is_loading_query => ActiveSearchThreads # {})
    /\ [][(SearchEnterQuery /\ ActiveSearchThreads # {}) =>
             /\ search_threads' = search_threads
             /\ app'.search.current_query = app.search.current_query
             /\ is_loading_query' = is_loading_query
             /\ results' = results]_vars

\* a search for "a" is outstanding and the text box holds "b", unfocused
C1_SecondRequestDropped ==
    /\ app.state = "Search"
    /\ \E i \in ActiveSearchThreads : search_threads[i].query = <<"a">>
    /\ is_loading_query
    /\ app.search.input = <<"b">>
    /\ app.search.current_query = <<"a">>
    /\ ~app.search.text_box_is_highlighted

\* C2: at most one document unit of work exists.
C2_AtMostOneDocumentLoad == Cardinality(ActiveArticleThreads) <= 1

\* C3: try_getting_page terminates.  Once main is in the wait loop it
\* reaches the event loop, given that main keeps polling and the units of
\* work keep running; and when main holds the guard of has_loaded_article
\* and locks is_valid_page, no unit of work holds is_valid_page, so the two
\* never wait for each other.
C3_TryGettingPageTerminates ==
    /\ [](main_pc = "lock_is_valid_page" => locks["is_valid_page"] = Free)
    /\ (main_pc = "try_getting_page" ~> main_pc = "loop")

\* try_getting_page has returned from its wait loop
C3_Returned ==
    /\ main_pc = "loop"
    /\ args.page # None
    /\ has_loaded_article
    /\ ActiveArticleThreads = {}

\* C4: when try_getting_page(title) has returned, the screen is Article
\* exactly if is_valid_page holds true; if it holds false, the load of title
\* wrote it, the screen is Search and the search input is title.
C4_ScreenFollowsValidity ==
    (main_pc = "loop" /\ args.page # None) =>
        /\ app.state = "Article" <=> is_valid_page
        /\ ~is_valid_page =>
              /\ ~ServiceDocument(args.page[1]).valid
              /\ app.state = "Search"
              /\ app.search.input = args.page[1]

\* try_getting_page of a missing title has redirected to Search
C4_Redirected ==
    /\ main_pc = "loop"
    /\ args.page = Some(PageMissing)
    /\ ~is_valid_page
    /\ app.state = "Search"
    /\ app.search.input = PageMissing

\* C5: a loading flag that is true becomes false again; a failed fetch
\* leaves the results as they were; and Enter in the text box with a
\* non-empty input and no search outstanding is accepted: a unit of work is
\* spawned for the input.
C5_FlagIsCleared ==
    /\ (is_loading_query ~> ~is_loading_query)
    /\ [][\A i \in 1..MaxSearchThreads :
             (search_threads[i].pc = "fetch" /\ search_threads'[i].pc = "clear_flag")
                 => results' = results]_vars
    /\ [][(SearchEnterQuery /\ Len(app.search.input) > 0 /\ ActiveSearchThreads = {}) =>
             /\ app'.search.current_query = app.search.input
             /\ \E i \in 1..MaxSearchThreads :
                   search_threads'[i] = [pc |-> "fetch", query |-> app.search.input]]_vars

\* the search for "b" was accepted after the one for "a", failed, and the
\* flag is false again: the results are still those of "a"
C5_FailedAndCleared ==
    /\ app.search.current_query = <<"b">>
    /\ results = ServiceSearch(<<"a">>)
    /\ ActiveSearchThreads = {}
    /\ ~is_loading_query

\* C6: drawing a frame never waits for a slot, and a contended flag shows
\* the loading placeholder.
C6_DrawNeverBlocks ==
    /\ main_pc = "draw_markdown_spans" => locks["markdown_spans"] = Free
    /\ main_pc = "draw_link_span_indices" => locks["link_span_indices"] = Free
    /\ (main_pc = "loop" /\ app.state \in {"Article", "ArticleMenu"}
            /\ locks["has_loaded_article"] # Free) => draw_article = "Loading..."

\* C7: no key handler waits for the mutex of the results.
C7_HandlersNeverBlock ==
    main_pc \in {"selected_search_result_title", "scroll_results_up",
                 "scroll_results_down"} => locks["results"] = Free

\* C8: document loads carry no generation check.  Every call of
\* set_article_page that changes article_name spawns a unit of work for the
\* new name, also while another one is outstanding, and every unit of work
\* that gets to write the spans writes those of its own title, whatever
\* article_name is by then.
C8_NoGenerationCheck ==
    [][/\ app'.article.article_name # app.article.article_name =>
             \E i \in 1..MaxArticleThreads :
                /\ article_threads[i].pc = "idle"
                /\ article_threads'[i] =
                       [pc |-> "fetch", title |-> app'.article.article_name]
       /\ \A i \in 1..MaxArticleThreads :
             (article_threads[i].pc = "fetch" /\ article_threads'[i].pc = "spans_locked")
                 => markdown_spans' = ServiceDocument(article_threads[i].title).spans]_vars

\* the only unit of work left has just written the spans of a title that is
\* not article_name over those of article_name, whose links are still in
\* the link slot
C8_StaleOverwrite ==
    \E i \in 1..MaxArticleThreads :
        /\ article_threads[i].pc = "spans_locked"
        /\ article_threads[i].title # app.article.article_name
        /\ ActiveArticleThreads = {i}
        /\ has_loaded_article
        /\ markdown_spans = ServiceDocument(article_threads[i].title).spans
        /\ markdown_spans # ServiceDocument(app.article.article_name).spans
        /\ link_span_indices = ServiceDocument(app.article.article_name).links
        /\ link_span_indices # <<>>

\* C9: a non-empty back_history ends with article_name.
C9_BackHistoryEndsWithCurrent ==
    Len(app.article.back_history) > 0 =>
        app.article.back_history[Len(app.article.back_history)] = app.article.article_name

\* after going back from B to A
C9_WentBack ==
    /\ app.article.back_history = <<PageA>>
    /\ app.article.forward_history = <<PageB>>
    /\ app.article.article_name = PageA

\* C10: Enter in Article with a link selected clears forward_history,
\* appends the formatted title of the link to back_history, and spawns a
\* load of that title.
C10_FollowLink ==
    [][(ArticleEnter /\ get_selected_link(World) # None) =>
          LET title == FormatTitle(get_selected_link(World)[1])
          IN  /\ app'.article.forward_history = <<>>
              /\ app'.article.back_history = Append(app.article.back_history, title)
              /\ app'.article.article_name = title
              /\ \E i \in 1..MaxArticleThreads :
                    /\ article_threads[i].pc = "idle"
                    /\ article_threads'[i] = [pc |-> "fetch", title |-> title]]_vars

\* the link of A to B was followed
C10_Followed ==
    /\ app.state = "Article"
    /\ app.article.back_history = <<PageA, PageB>>
    /\ app.article.forward_history = <<>>
    /\ app.article.article_name = PageB
    /\ \E i \in ActiveArticleThreads : article_threads[i] = [pc |-> "fetch", title |-> PageB]

\* C11: "Go back" with at least two entries in back_history removes the
\* last entry, puts it at the front of forward_history, and spawns a load
\* of the new last entry, which becomes article_name.
C11_GoBack ==
    [][(ArticleMenuEnter /\ app.article_menu.selected_index = 2
            /\ Len(app.article.back_history) >= 2) =>
          LET back == app.article.back_history
              n == Len(back)
          IN  /\ app'.article.back_history = SubSeq(back, 1, n - 1)
              /\ app'.article.forward_history = <<back[n]>> \o app.article.forward_history
              /\ app'.article.article_name = back[n - 1]
              /\ \E i \in 1..MaxArticleThreads :
                    /\ article_threads[i].pc = "idle"
                    /\ article_threads'[i] = [pc |-> "fetch", title |-> back[n - 1]]]_vars

\* went back twice from B, A, B
C11_WentBackTwice ==
    /\ app.state = "ArticleMenu"
    /\ app.article_menu.selected_index = 2
    /\ app.article.back_history = <<PageB>>
    /\ app.article.forward_history = <<PageA, PageB>>
    /\ app.article.article_name = PageB
    /\ \E i \in ActiveArticleThreads : article_threads[i] = [pc |-> "fetch", title |-> PageB]

\* C12: "Go back" with at most one entry in back_history changes neither
\* the histories, article_name nor the article slots, and spawns no load.
C12_GoBackNoOp ==
    [][(ArticleMenuEnter /\ app.article_menu.selected_index = 2
            /\ Len(app.article.back_history) <= 1) =>
          /\ app'.article = app.article
          /\ UNCHANGED <<article_threads, markdown_spans, link_span_indices,
                         is_valid_page, has_loaded_article>>]_vars

\* C13: "Go forward" with a non-empty forward_history removes its front
\* entry, appends it to back_history, and spawns a load of that entry,
\* which becomes article_name.
C13_GoForward ==
    [][(ArticleMenuEnter /\ app.article_menu.selected_index = 3
            /\ Len(app.article.forward_history) > 0) =>
          LET title == Head(app.article.forward_history)
          IN  /\ app'.article.forward_history = Tail(app.article.forward_history)
              /\ app'.article.back_history = Append(app.article.back_history, title)
              /\ app'.article.article_name = title
              /\ \E i \in 1..MaxArticleThreads :
                    /\ article_threads[i].pc = "idle"
                    /\ article_threads'[i] = [pc |-> "fetch", title |-> title]]_vars

\* went forward once after going back twice from B, A, B
C13_WentForward ==
    /\ app.state = "ArticleMenu"
    /\ app.article_menu.selected_index = 3
    /\ app.article.back_history = <<PageB, PageA>>
    /\ app.article.forward_history = <<PageB>>
    /\ app.article.article_name = PageA
    /\ \E i \in ActiveArticleThreads : article_threads[i] = [pc |-> "fetch", title |-> PageA]

\* C14: "Go forward" with an empty forward_history changes neither the
\* histories, article_name nor the article slots, and spawns no load.
C14_GoForwardNoOp ==
    [][(ArticleMenuEnter /\ app.article_menu.selected_index = 3
            /\ Len(app.article.forward_history) = 0) =>
          /\ app'.article = app.article
          /\ UNCHANGED <<article_threads, markdown_spans, link_span_indices,
                         is_valid_page, has_loaded_article>>]_vars

\* C15: opening a result of the search leaves back_history as the one
\* title opened and forward_history empty.
C15_OpenResultResetsHistories ==
    [][(ViewSelectedArticle /\ selected_search_result_title(World) # None) =>
          /\ app'.article.back_history = <<selected_search_result_title(World)[1]>>
          /\ app'.article.forward_history = <<>>
          /\ app'.state = "Article"]_vars

\* the second result of "a" was opened
C15_OpenedSecondResult ==
    /\ app.state = "Article"
    /\ results = ServiceSearch(<<"a">>)
    /\ app.search.selected_index = 1
    /\ app.article.back_history = <<PageB>>
    /\ app.article.forward_history = <<>>
    /\ app.article.article_name = PageB
    /\ \E i \in ActiveArticleThreads : article_threads[i] = [pc |-> "fetch", title |-> PageB]

\* C16: in every state with at least two entries in back_history, going
\* back and then forward gives the same back_history, forward_history and
\* article_name, and in between article_name is the entry before the last;
\* from back_history = [B], following the link to A, going back and going
\* forward ends with back_history = [B, A], an empty forward_history and
\* article_name = A.
C16_HistoryRoundTrip ==
    /\ Len(app.article.back_history) >= 2 =>
          LET went_back == go_to_previous_article(World)
              returned == go_to_next_article(went_back)
          IN  /\ went_back.app.article.article_name =
                     app.article.back_history[Len(app.article.back_history) - 1]
              /\ returned.app.article.back_history = app.article.back_history
              /\ returned.app.article.forward_history = app.article.forward_history
              /\ returned.app.article.article_name = app.article.article_name
    /\ (app.article.back_history = <<PageB>> /\ get_selected_link(World) = Some(LinkToA)) =>
          LET followed == view_selected_article_from_selected_link(World)
              went_back == go_to_previous_article(followed)
              returned == go_to_next_article(went_back)
          IN  /\ followed.app.article.back_history = <<PageB, PageA>>
              /\ followed.app.article.forward_history = <<>>
              /\ went_back.app.article.article_name = PageB
              /\ went_back.app.article.forward_history = <<PageA>>
              /\ returned.app.article.back_history = <<PageB, PageA>>
              /\ returned.app.article.forward_history = <<>>
              /\ returned.app.article.article_name = PageA

\* "Go forward" has led back to B, A, B
C16_WentBackAndForward ==
    /\ app.state = "ArticleMenu"
    /\ app.article_menu.selected_index = 3
    /\ app.article.back_history = <<PageB, PageA, PageB>>
    /\ app.article.forward_history = <<>>
    /\ app.article.article_name = PageB
    /\ \E i \in ActiveArticleThreads : article_threads[i] = [pc |-> "fetch", title |-> PageB]

\* C17: the program starts on the Title screen; Esc leads from Search to
\* SearchMenu, from SearchMenu to Search, from Article to ArticleMenu, from
\* ArticleMenu to Article, from Credit to SearchMenu, from ThemeMenu to
\* Search, and in Title sets is_running to false; it changes nothing else.
C17_EscTable ==
    /\ [](main_pc = "start" => app.state = "Title")
    /\ [][(TitleEsc \/ SearchEsc \/ SearchMenuEsc \/ ArticleEsc \/ ArticleMenuEsc
              \/ CreditEsc \/ ThemeMenuEsc) =>
             /\ app' = CASE app.state = "Title" -> [app EXCEPT !.is_running = FALSE]
                         [] app.state = "Search" -> [app EXCEPT !.state = "SearchMenu"]
                         [] app.state = "SearchMenu" -> [app EXCEPT !.state = "Search"]
                         [] app.state = "Article" -> [app EXCEPT !.state = "ArticleMenu"]
                         [] app.state = "ArticleMenu" -> [app EXCEPT !.state = "Article"]
                         [] app.state = "Credit" -> [app EXCEPT !.state = "SearchMenu"]
                         [] app.state = "ThemeMenu" -> [app EXCEPT !.state = "Search"]
             /\ UNCHANGED <<args, results, is_loading_query, markdown_spans,
                            link_span_indices, is_valid_page, has_loaded_article,
                            locks, search_threads, article_threads>>]_vars

\* Esc was pressed in Title
C17_QuitFromTitle ==
    /\ main_pc = "loop"
    /\ app.state = "Title"
    /\ ~app.is_running

\* C18 as stated: Enter in Title leads to Search, copies the Title text to
\* the search input and spawns a search for it, whatever the text is.
C18_TitleEnterAlwaysLoads ==
    [][TitleEnter =>
          /\ app'.state = "Search"
          /\ app'.search.input = app.title.input
          /\ \E i \in 1..MaxSearchThreads :
                /\ search_threads[i].pc = "idle"
                /\ search_threads'[i] = [pc |-> "fetch", query |-> app.title.input]]_vars

\* C18 amended: Enter in Title leads to Search and copies the Title text to
\* the search input; it spawns a search for the text when the text is not
\* empty, and spawns none and leaves current_query and the loading flag when
\* it is empty.
C18_TitleEnterLoadsNonEmpty ==
    [][TitleEnter =>
          /\ app'.state = "Search"
          /\ app'.search.input = app.title.input
          /\ IF Len(app.title.input) > 0
             THEN /\ app'.search.current_query = app.title.input
                  /\ is_loading_query'
                  /\ \E i \in 1..MaxSearchThreads :
                        /\ search_threads[i].pc = "idle"
                        /\ search_threads'[i] =
                               [pc |-> "fetch", query |-> app.title.input]
             ELSE /\ search_threads' = search_threads
                  /\ app'.search.current_query = app.search.current_query
                  /\ is_loading_query' = is_loading_query]_vars

\* "a" was typed in Title and Enter pressed
C18_SearchedFromTitle ==
    /\ app.state = "Search"
    /\ app.title.input = <<"a">>
    /\ app.search.input = <<"a">>
    /\ app.search.current_query = <<"a">>
    /\ \E i \in ActiveSearchThreads : search_threads[i] = [pc |-> "fetch", query |-> <<"a">>]

\* C19: Enter in Search with the text box focused spawns a search for the
\* input (when the input is not empty and no search is loading); with the
\* result list focused and not empty it leads to Article and spawns a load
\* of the title at selected_index.
C19_EnterInSearch ==
    /\ [][(SearchEnterQuery /\ Len(app.search.input) > 0 /\ ~currently_loading(World)) =>
             \E i \in 1..MaxSearchThreads :
                /\ search_threads[i].pc = "idle"
                /\ search_threads'[i] = [pc |-> "fetch", query |-> app.search.input]]_vars
    /\ [][(ViewSelectedArticle /\ Len(results) > 0) =>
             /\ InRange(results, app.search.selected_index)
             /\ app'.state = "Article"
             /\ \E i \in 1..MaxArticleThreads :
                   /\ article_threads[i].pc = "idle"
                   /\ article_threads'[i] =
                          [pc |-> "fetch",
                           title |-> Get(results, app.search.selected_index)]]_vars

\* C20: Up / Down in Search with the text box focused leaves it focused
\* when the result list is empty or a search is loading.
C20_FocusStaysOnEmptyList ==
    [][((SearchScroll \/ ScrollResults) /\ app.search.text_box_is_highlighted
            /\ (Len(results) = 0 \/ currently_loading(World))) =>
          app'.search.text_box_is_highlighted]_vars

\* C21: Enter in a menu runs exactly the item at the menu's selected index.
\* SearchMenu: Resume, Themes, Credits, Quit lead to Search, ThemeMenu,
\* Credit and to is_running = false.  ArticleMenu: Resume and Search lead to
\* Article and Search, Go back and Go forward do what go_to_previous_article
\* and go_to_next_article do, Quit sets is_running false.  Credit: Back to
\* menu leads to SearchMenu.  ThemeMenu: the theme at the selected index
\* becomes the theme of the program.  Nothing else of the App changes.
C21_EnterRunsSelectedItem ==
    /\ [][SearchMenuEnter =>
             app' = CASE app.search_menu.selected_index = 0 ->
                             [app EXCEPT !.state = "Search"]
                      [] app.search_menu.selected_index = 1 ->
                             [app EXCEPT !.state = "ThemeMenu"]
                      [] app.search_menu.selected_index = 2 ->
                             [app EXCEPT !.state = "Credit"]
                      [] app.search_menu.selected_index = 3 ->
                             [app EXCEPT !.is_running = FALSE]]_vars
    /\ [][ArticleMenuEnter =>
             CASE app.article_menu.selected_index = 0 ->
                      app' = [app EXCEPT !.state = "Article"]
               [] app.article_menu.selected_index = 1 ->
                      app' = [app EXCEPT !.state = "Search"]
               [] app.article_menu.selected_index = 2 ->
                      /\ app' = go_to_previous_article(World).app
                      /\ article_threads' = go_to_previous_article(World).article_threads
               [] app.article_menu.selected_index = 3 ->
                      /\ app' = go_to_next_article(World).app
                      /\ article_threads' = go_to_next_article(World).article_threads
               [] app.article_menu.selected_index = 4 ->
                      app' = [app EXCEPT !.is_running = FALSE]]_vars
    /\ [][(CreditEnter /\ app.credit.selected_index = 1) =>
             app' = [app EXCEPT !.state = "SearchMenu"]]_vars
    /\ [][ThemeMenuEnter =>
             app' = [app EXCEPT !.theme =
                        app.theme_menu.themes[app.theme_menu.selected_index + 1]]]_vars

\* Enter on Themes, the second item of SearchMenu, led to ThemeMenu, and
\* Enter on its second item made Light the theme
C21_SecondThemeChosen ==
    /\ app.state = "ThemeMenu"
    /\ app.search_menu.selected_index = 1
    /\ app.theme_menu.selected_index = 1
    /\ app.theme = "Light"
    /\ main_pc = "loop"

\* C22: scroll wraps around.  For a menu of N items and an index i: with
\* N = 0 the index is unchanged; otherwise forward gives (i + 1) mod N and
\* backward (i - 1 + N) mod N, the index stays within 0..N-1, backward from
\* 0 gives N - 1, and N scrolls forward give i again.  Every Up or Down in
\* the four menus of the program moves the index of its menu in this way.
C22_ScrollWraps ==
    /\ \A N \in 0..(Len(ArticleMenuOptions) + 1), i \in 0..Len(ArticleMenuOptions) :
          /\ N = 0 => scroll(i, N, DOWN) = i /\ scroll(i, N, UP) = i
          /\ (N > 0 /\ i < N) =>
                /\ scroll(i, N, DOWN) = (i + 1) % N
                /\ scroll(i, N, UP) = (i - 1 + N) % N
                /\ scroll(i, N, DOWN) \in 0..(N - 1)
                /\ scroll(i, N, UP) \in 0..(N - 1)
                /\ scroll(0, N, UP) = N - 1
                /\ LET forward[k \in 0..N] ==
                           IF k = 0 THEN i ELSE scroll(forward[k - 1], N, DOWN)
                   IN  forward[N] = i
    /\ [][SearchMenuScroll =>
             app'.search_menu.selected_index \in
                 {(app.search_menu.selected_index + 1) % 4,
                  (app.search_menu.selected_index - 1 + 4) % 4}]_vars
    /\ [][ArticleMenuScroll =>
             app'.article_menu.selected_index \in
                 {(app.article_menu.selected_index + 1) % 5,
                  (app.article_menu.selected_index - 1 + 5) % 5}]_vars
    /\ [][CreditScroll =>
             app'.credit.selected_index = (app.credit.selected_index + 1) % 2]_vars
    /\ [][ThemeMenuScroll =>
             app'.theme_menu.selected_index \in
                 {(app.theme_menu.selected_index + 1) % Len(app.theme_menu.themes),
                  (app.theme_menu.selected_index - 1 + Len(app.theme_menu.themes))
                      % Len(app.theme_menu.themes)}]_vars

\* the article menu shows its last item, Quit, selected, and the search menu
\* its first: Up from the first item wrapped, or Down went through them all
C22_WrappedToLast ==
    /\ app.state = "ArticleMenu"
    /\ app.article_menu.selected_index = 4
    /\ app.search_menu.selected_index = 0
    /\ main_pc = "loop"

\* C23: in the Title and in the Search buffer the cursor is between 0 and
\* the length of the text and is a valid insertion point, a character
\* boundary of the text, whatever was typed, deleted or moved, characters
\* of more than one byte included.
C23_CursorIsInsertionPoint ==
    \A buf \in {TextOf(app.title), TextOf(app.search)} :
        /\ buf.cursor_pos \in 0..Len(buf.input)
        /\ is_char_boundary(buf.input, buf.cursor_pos)

\* C24: type_char(c) on a buffer whose cursor is not beyond the end gives
\* the text before the cursor, then c, then the text after the cursor, and
\* moves the cursor on by exactly one; with the cursor beyond the end the
\* buffer is left as it is.
C24_TypeCharInserts ==
    \A buf \in {TextOf(app.title), TextOf(app.search)}, c \in Chars :
        LET typed == type_char(buf, c)
        IN  IF buf.cursor_pos <= Len(buf.input)
            THEN /\ ~typed.panic
                 /\ typed.input =
                        SubSeq(buf.input, 1, buf.cursor_pos) \o Utf8(c)
                            \o SubSeq(buf.input, buf.cursor_pos + 1, Len(buf.input))
                 /\ typed.cursor_pos = buf.cursor_pos + 1
            ELSE typed = buf

\* C25: backspace leaves an empty buffer, and a buffer whose cursor is 0,
\* as it is; otherwise it removes exactly the character that ends at the
\* cursor, keeps the other characters in their order, and moves the cursor
\* back by one.
C25_BackspaceRemovesOne ==
    \A buf \in {TextOf(app.title), TextOf(app.search)} :
        LET erased == backspace(buf)
            width == IF buf.input[buf.cursor_pos] = "A9" THEN 2 ELSE 1
        IN  IF Len(buf.input) = 0 \/ buf.cursor_pos = 0
            THEN erased = buf
            ELSE /\ ~erased.panic
                 /\ erased.input =
                        SubSeq(buf.input, 1, buf.cursor_pos - width)
                            \o SubSeq(buf.input, buf.cursor_pos + 1, Len(buf.input))
                 /\ erased.cursor_pos = buf.cursor_pos - 1

C27_TextKeysFocus ==
    /\ [](\A key \in TextKeys :
             search_handle_key(app.search, key).text_box_is_highlighted)
    /\ [][(SearchKey(MaxTextLen) /\ main_pc' = "loop") =>
             app'.search.text_box_is_highlighted]_vars

\* the search from the empty Title buffer took the focus from the text box,
\* and a key that changes nothing of the empty Search buffer gave it back
C27_FocusedWithoutChange ==
    /\ app.state = "Search"
    /\ main_pc = "loop"
    /\ app.search.input = <<>>
    /\ app.search.cursor_pos = 0
    /\ app.search.text_box_is_highlighted

\* C28: typing the characters of a text s one by one into the empty buffer
\* gives the text s with the cursor at its length, and one backspace then
\* gives s without its last character and the cursor back by one; and for
\* any buffer whose cursor is not beyond the end, type_char(c) followed by
\* backspace gives the buffer and the cursor back.
C28_TypeThenBackspace ==
    /\ \A n \in 0..2 : \A s \in [1..n -> Chars] :
          LET empty == [input |-> <<>>, cursor_pos |-> 0, panic |-> FALSE]
              typed[k \in 0..n] ==
                  IF k = 0 THEN empty ELSE type_char(typed[k - 1], s[k])
              text[k \in 0..n] ==
                  IF k = 0 THEN <<>> ELSE text[k - 1] \o Utf8(s[k])
          IN  /\ ~typed[n].panic
              /\ typed[n].input = text[n]
              /\ typed[n].cursor_pos = Len(text[n])
              /\ n > 0 =>
                    /\ ~backspace(typed[n]).panic
                    /\ backspace(typed[n]).input = text[n - 1]
                    /\ backspace(typed[n]).cursor_pos = typed[n].cursor_pos - 1
    /\ \A buf \in {TextOf(app.title), TextOf(app.search)}, c \in Chars :
          buf.cursor_pos <= Len(buf.input) => backspace(type_char(buf, c)) = buf

\* C29: the event loop stops only through a quit of the user.  is_running
\* becomes false only on Esc in Title, F1 in Search or SearchMenu, or the
\* Quit item of a menu; the loop ends only when is_running is false; and
\* once is_running is false no key is handled any more.
C29_StopsOnlyOnQuit ==
    /\ [][(app.is_running /\ ~app'.is_running) =>
             \/ TitleEsc
             \/ SearchF1
             \/ SearchMenuF1
             \/ SearchMenuEnter /\ app.search_menu.selected_index = 3
             \/ ArticleMenuEnter /\ app.article_menu.selected_index = 4]_vars
    /\ [][(main_pc = "loop" /\ main_pc' \in {"exit", "panicked"}) =>
             ~app.is_running]_vars
    /\ [][(main_pc \in {"loop", "exit"} /\ ~app.is_running) => app' = app]_vars

\* C30: the handler of a key changes the state of its own screen only.  Up
\* and Down in SearchMenu, ArticleMenu, Credit and ThemeMenu change nothing
\* but the selected index of that menu; a text key in Title changes nothing
\* but the text and the cursor of the Title buffer; a text key in Search
\* changes nothing but the text, the cursor and the focus of the Search box.
C30_HandlersKeepFrame ==
    [][LET Rest == UNCHANGED <<args, results, is_loading_query, markdown_spans,
                               link_span_indices, is_valid_page, has_loaded_article,
                               locks, search_threads, article_threads>>
       IN  /\ SearchMenuScroll =>
                 /\ Rest
                 /\ app' = [app EXCEPT !.search_menu.selected_index =
                                          app'.search_menu.selected_index]
           /\ ArticleMenuScroll =>
                 /\ Rest
                 /\ app' = [app EXCEPT !.article_menu.selected_index =
                                          app'.article_menu.selected_index]
           /\ CreditScroll =>
                 /\ Rest
                 /\ app' = [app EXCEPT !.credit.selected_index =
                                          app'.credit.selected_index]
           /\ ThemeMenuScroll =>
                 /\ Rest
                 /\ app' = [app EXCEPT !.theme_menu.selected_index =
                                          app'.theme_menu.selected_index]
           /\ TitleKey(MaxInputLen) =>
                 /\ Rest
                 /\ app' = [app EXCEPT !.title.input = app'.title.input,
                                       !.title.cursor_pos = app'.title.cursor_pos]
           /\ SearchKey(MaxInputLen) =>
                 /\ Rest
                 /\ app' = [app EXCEPT
                               !.search.input = app'.search.input,
                               !.search.cursor_pos = app'.search.cursor_pos,
                               !.search.text_box_is_highlighted =
                                   app'.search.text_box_is_highlighted]]_vars

\* a was typed in Title and searched for, its first result was opened, and
\* Down moved through the article menu: the other menus, the Title buffer
\* and the Search buffer are as they were left
C30_MovedInArticleMenu ==
    /\ app.state = "ArticleMenu"
    /\ app.article_menu.selected_index = 2
    /\ app.search_menu.selected_index = 0
    /\ app.theme_menu.selected_index = 0
    /\ app.theme = "Default"
    /\ app.title = [input |-> <<"a">>, cursor_pos |-> 1]
    /\ app.search.input = <<"a">>
    /\ app.search.cursor_pos = 0

\* C31: a line of ./themes.txt with fewer than two tokens is skipped and
\* does not end the loading: every line of a name and six colours that
\* parse, before or after it, has its theme in the theme list.
C31_MalformedLineSkipped ==
    [][\A themes_txt \in ThemeFiles \ {None} :
           AppNew(themes_txt) =>
               \A k \in 1..Len(themes_txt[1]) :
                   LET line_split == Split(themes_txt[1][k], " ")
                   IN  (/\ Len(line_split) >= 2
                        /\ from_hex_string_series(line_split[1], line_split[2])
                               # Theme_default)
                       => \E i \in 1..Len(app'.theme_menu.themes) :
                              app'.theme_menu.themes[i] =
                                  from_hex_string_series(line_split[1], line_split[2])]_vars

\* C32: in a file whose lines all have two tokens, a line whose second
\* token holds fewer than six colours that parse adds no entry to the theme
\* list, and a line of six colours that parse adds the theme of the line's
\* name with the six colours as background, text, secondary, tertiary,
\* highlight and negative text.
C32_OnlySixColoursMakeATheme ==
    [][\A themes_txt \in ThemeFiles \ {None} :
           (/\ AppNew(themes_txt)
            /\ \A k \in 1..Len(themes_txt[1]) : Len(Split(themes_txt[1][k], " ")) >= 2)
           => LET Name(k) == Split(themes_txt[1][k], " ")[1]
                  Colours(k) == Split(Split(themes_txt[1][k], " ")[2], "-")
                  Parsed(k) == {j \in 1..Len(Colours(k)) : hex_to_rgb(Colours(k)[j]) # None}
                  Valid == {k \in 1..Len(themes_txt[1]) : Cardinality(Parsed(k)) >= 6}
                  Colour(k, j) == hex_to_rgb(Colours(k)[j])[1]
              IN  /\ Valid # {} => Len(app'.theme_menu.themes) = Cardinality(Valid)
                  /\ \A k \in Valid :
                        Len(Colours(k)) = 6 =>
                            \E i \in 1..Len(app'.theme_menu.themes) :
                                app'.theme_menu.themes[i] =
                                    [name |-> Name(k),
                                     background |-> Colour(k, 1),
                                     text |-> Colour(k, 2),
                                     secondary |-> Colour(k, 3),
                                     tertiary |-> Colour(k, 4),
                                     highlight |-> Colour(k, 5),
                                     negative_text |-> Colour(k, 6)]
                  /\ \A i \in 1..Len(app'.theme_menu.themes) :
                        app'.theme_menu.themes[i] # Theme_default]_vars

\* C33: when ./themes.txt yields no valid theme (no file, no line, or no
\* line of a name and six colours that parse) the theme list after the
\* construction holds exactly one theme, a built-in one: the theme Normal
\* of App::default or Theme::default().
C33_FallbackTheme ==
    [][\A themes_txt \in ThemeFiles :
           (/\ AppNew(themes_txt)
            /\ themes_txt # None =>
                  \A k \in 1..Len(themes_txt[1]) :
                      LET line_split == Split(themes_txt[1][k], " ")
                      IN  \/ Len(line_split) < 2
                          \/ from_hex_string_series(line_split[1], line_split[2])
                                 = Theme_default)
           => /\ Len(app'.theme_menu.themes) = 1
              /\ app'.theme_menu.themes[1] \in {theme_menu_themes(None)[1], Theme_default}]_vars

\* C34, as claimed: whenever no search is outstanding and a search has
\* written results, the results slot holds the results of current_query.
C34_ResultsOfCurrentQuery ==
    (ActiveSearchThreads = {} /\ ~is_loading_query /\ results # <<>>)
        => results = ServiceSearch(app.search.current_query)

\* C34, amended: the results slot holds the results of current_query
\* whenever the search accepted last has completed successfully and none is
\* outstanding.  A search that completes successfully writes the results of
\* current_query; nothing else changes the results slot, a failed search
\* included; and current_query changes only in the step that accepts a
\* request and spawns the unit of work for the new current_query.
C34_ResultsOfLastSuccessfulQuery ==
    /\ [][\A i \in 1..MaxSearchThreads :
             (search_threads[i].pc = "fetch" /\ search_threads'[i].pc = "results_locked")
                 => results' = ServiceSearch(app.search.current_query)]_vars
    /\ [][results' # results =>
             \E i \in 1..MaxSearchThreads :
                 /\ search_threads[i].pc = "fetch"
                 /\ search_threads'[i].pc = "results_locked"]_vars
    /\ [][app'.search.current_query # app.search.current_query =>
             \E i \in 1..MaxSearchThreads :
                 /\ search_threads[i].pc = "idle"
                 /\ search_threads'[i] =
                        [pc |-> "fetch", query |-> app'.search.current_query]]_vars

\* the search for "b", accepted after the one for "a", has completed and
\* written its one result
C34_SecondSearchCompleted ==
    /\ ActiveSearchThreads = {}
    /\ ~is_loading_query
    /\ app.search.current_query = <<"b">>
    /\ results = ServiceSearch(<<"b">>)
    /\ app.search.selected_index = 1

\* C35: when try_getting_page has redirected an invalid title to Search,
\* the search for the title was issued: current_query is the title, also
\* when the search of --search was outstanding at that moment.
C35_RedirectSearchesTitle ==
    (main_pc = "loop" /\ args.page # None /\ ~is_valid_page /\ app.state = "Search")
        => app.search.current_query = args.page[1]

\* C36: a search request that is not accepted, because the input is empty,
\* the loading flag is true, or the slot of the flag is held by another
\* thread when it is tried, spawns no unit of work and leaves current_query,
\* the loading flag and the results as they are; it still takes the focus
\* from the text box.  The requests are Enter in the focused text box and
\* Enter in Title.
C36_DroppedRequestOnlyUnfocuses ==
    [][((SearchEnterQuery \/ TitleEnter)
          /\ \/ Len(app'.search.input) = 0
             \/ is_loading_query
             \/ locks["is_loading_query"] # Free)
       => /\ search_threads' = search_threads
          /\ app'.search.current_query = app.search.current_query
          /\ is_loading_query' = is_loading_query
          /\ results' = results
          /\ ~app'.search.text_box_is_highlighted]_vars

\* Enter in the text box holding "b" met the slot of the flag held by the
\* unit of work of "a", which had just set the flag false: nothing was
\* spawned, and the focus is on the result list
C36_DroppedOnContention ==
    /\ app.state = "Search"
    /\ main_pc = "loop"
    /\ app.search.input = <<"b">>
    /\ app.search.current_query = <<"a">>
    /\ ~app.search.text_box_is_highlighted
    /\ ~is_loading_query
    /\ \E i \in ActiveSearchThreads :
          /\ search_threads[i].pc = "flag_locked"
          /\ locks["is_loading_query"] = SearchThread(i)
    /\ Cardinality(ActiveSearchThreads) = 1

\* C37: whenever the screen is Article or ArticleMenu, back_history is not
\* empty: the document displayed is recorded in it, also when it was opened
\* by try_getting_page at startup.
C37_DisplayedDocumentRecorded ==
    app.state \in {"Article", "ArticleMenu"} => Len(app.article.back_history) > 0

\* C38: whenever no search is loading and the result list is not empty,
\* search.selected_index is below the number of results, also after a new
\* search replaced the list with a shorter one.
C38_SelectedIndexInResults ==
    (~currently_loading(World) /\ Len(results) > 0) =>
        InRange(results, app.search.selected_index)

\* C39: every operation that changes the displayed document (open from the
\* search, follow a link, go back, go forward) leaves selected_link_index
\* and vertical_scroll at 0; and once the document has loaded and no load
\* is outstanding, selected_link_index is inside a non-empty link list.
C39_DocumentChangeResetsPosition ==
    /\ [][app'.article.article_name # app.article.article_name =>
             /\ app'.article.selected_link_index = 0
             /\ app'.article.vertical_scroll = 0]_vars
    /\ []((has_loaded_article /\ ActiveArticleThreads = {} /\ link_span_indices # <<>>)
             => InRange(link_span_indices, app.article.selected_link_index))

\* C40: in every reachable state the selected_index of each menu is below
\* its number of items: 4 in the search menu, 5 in the article menu, 2 in
\* the credit, and in the theme menu the number of themes, which is at least
\* 1 whatever ./themes.txt holds; so the selected item and the selected
\* theme always exist.
C40_MenuIndicesInRange ==
    /\ \A len \in ThemeListLengths : len >= 1
    /\ Len(SearchMenuOptions) = 4 /\ Len(ArticleMenuOptions) = 5 /\ Len(CreditOptions) = 2
    /\ app.search_menu.selected_index \in 0..3
    /\ app.article_menu.selected_index \in 0..4
    /\ app.credit.selected_index \in 0..1
    /\ Len(app.theme_menu.themes) >= 1
    /\ InRange(app.theme_menu.themes, app.theme_menu.selected_index)

\* every menu has been visited and left with its last item selected
C40_LastItemOfEveryMenu ==
    /\ app.state = "ArticleMenu"
    /\ app.search_menu.selected_index = 3
    /\ app.article_menu.selected_index = 4
    /\ app.credit.selected_index = 1
    /\ app.theme_menu.selected_index = Len(app.theme_menu.themes) - 1
    /\ main_pc = "loop"

====
